---- MODULE Spec2Model ----
(***************************************************************************)
(* Model of the two scripts of fujita1984/App:                             *)
(*   Scripts/createcsv.py   export_hsk_words_to_csv, main                  *)
(*   Scripts/import_csv.py  import_csv_to_db, main                         *)
(* together with the parts of their environment that decide what they do:  *)
(* the hsk_words table behind one MySQL connection (autocommit off, the    *)
(* pymysql default), the CSV file both scripts name, and the configuration *)
(* file.                                                                   *)
(*                                                                         *)
(* Database semantics.  `table` is the durable content of hsk_words and    *)
(* `work` is what the open connection sees (its uncommitted changes        *)
(* included).  DELETE and INSERT change `work` only; commit() copies       *)
(* `work` to `table`; rollback() and close() discard it.  ALTER TABLE is a *)
(* DDL statement: MySQL ends the active transaction with an implicit       *)
(* COMMIT before executing it, so it copies `work` to `table` as well.     *)
(* INSERT of an Id already present raises IntegrityError (a pymysql.Error).*)
(*                                                                         *)
(* CSV semantics.  A file is its header and its rows of cells; the         *)
(* delimiter and quote framing that csv.writer adds and csv.reader removes *)
(* is the row and cell structure itself.  A cell is a sequence of          *)
(* characters.  The importer opens the file in text mode without           *)
(* newline='', so Python's universal-newlines translation runs over the    *)
(* stream before csv.reader sees it, the content of quoted cells included. *)
(***************************************************************************)
EXTENDS Integers, Sequences, FiniteSets, TLC

\* ---------------------------------------------------------------- bounds
\* Largest Id of a sampled table row or CSV row.
MaxId == 2
\* Largest number of data rows of a sampled CSV file.
MaxRows == 2

\* ------------------------------------------------------------ characters
CR == "\r"
LF == "\n"
Digits == <<"0", "1", "2", "3", "4", "5", "6", "7", "8", "9">>
Whitespace == {" ", "\t", CR, LF}

\* The column names: the exporter's header row, the importer's INSERT list.
Headers == <<"Id", "Chinese", "Pinyin", "Pinyin_With_Tone", "Japanese_Meaning", "Hsk_Level">>

NoFile == [absent |-> TRUE]
NoRun == [script |-> "none"]

VARIABLES
    table,      \* durable content of hsk_words: a set of records
    work,       \* the content the open connection sees
    autoInc,    \* the table's AUTO_INCREMENT counter
    csvFile,    \* the CSV file: NoFile or [header, rows]
    config,     \* the OS-selected appsettings file: "ok", "missing", "malformed"
    dbUp,       \* whether pymysql.connect succeeds (never reached without a config)
    pc,         \* position of the running script
    script,     \* "none", "import", "export": the script of the current/last run
    confirm,    \* what the operator typed at the importer's prompt
    conn,       \* the local `connection`: "none", "open", "closed"
    exc,        \* the exception in flight
    reader,     \* the rows csv.DictReader has still to yield
    inserted,   \* inserted_count
    fetched,    \* the exporter's `rows`
    out,        \* what the run reported on the console
    log,        \* the database and file operations of the current run, in order
    start,      \* table and CSV file when the current run started
    prev        \* summary of the run before the current one

vars == <<table, work, autoInc, csvFile, config, dbUp, pc, script, confirm, conn,
          exc, reader, inserted, fetched, out, log, start, prev>>

\* ------------------------------------------------------ pure conversions

\* str(int) as csv.writer applies it to the Id and Hsk_Level of a fetched row.
RECURSIVE PyStr(_)
PyStr(n) ==
    IF n < 10 THEN <<Digits[n + 1]>>
    ELSE PyStr(n \div 10) \o <<Digits[(n % 10) + 1]>>

IsDigit(c) == \E d \in 1..10 : Digits[d] = c
DigitVal(c) == (CHOOSE d \in 1..10 : Digits[d] = c) - 1

RECURSIVE LStrip(_)
LStrip(s) ==
    IF s # <<>> /\ Head(s) \in Whitespace THEN LStrip(Tail(s)) ELSE s

RECURSIVE RStrip(_)
RStrip(s) ==
    IF s # <<>> /\ s[Len(s)] \in Whitespace THEN RStrip(SubSeq(s, 1, Len(s) - 1)) ELSE s

RECURSIVE DigitsVal(_, _)
DigitsVal(s, acc) ==
    IF s = <<>> THEN acc ELSE DigitsVal(Tail(s), acc * 10 + DigitVal(Head(s)))

\* int(text): surrounding whitespace stripped, an optional sign, then one or
\* more decimal digits; anything else raises ValueError (ok = FALSE).
PyInt(s) ==
    LET t == RStrip(LStrip(s))
        signed == t # <<>> /\ Head(t) \in {"+", "-"}
        body == IF signed THEN Tail(t) ELSE t
    IN  IF body # <<>> /\ \A k \in 1..Len(body) : IsDigit(body[k])
        THEN [ok |-> TRUE,
              val |-> IF signed /\ Head(t) = "-" THEN 0 - DigitsVal(body, 0)
                      ELSE DigitsVal(body, 0)]
        ELSE [ok |-> FALSE, val |-> 0]

\* What open(csv_file, 'r') without newline='' does to the text it reads:
\* "\r\n" and a lone "\r" both become "\n".
RECURSIVE UniversalNewlines(_)
UniversalNewlines(s) ==
    IF s = <<>> THEN <<>>
    ELSE IF Head(s) = CR
         THEN IF Len(s) >= 2 /\ s[2] = LF
              THEN <<LF>> \o UniversalNewlines(SubSeq(s, 3, Len(s)))
              ELSE <<LF>> \o UniversalNewlines(Tail(s))
         ELSE <<Head(s)>> \o UniversalNewlines(Tail(s))

LowerChar(c) ==
    CASE c = "Y" -> "y"
      [] c = "N" -> "n"
      [] c = "E" -> "e"
      [] c = "S" -> "s"
      [] OTHER -> c

\* str.lower()
Lower(s) == [k \in 1..Len(s) |-> LowerChar(s[k])]

\* --------------------------------------------------------------- records

\* One row of hsk_words: the six columns of the SELECT and of the INSERT.
MkRecord(id, w) ==
    [Id |-> id, Chinese |-> w[1], Pinyin |-> w[2], Pinyin_With_Tone |-> w[3],
     Japanese_Meaning |-> w[4], Hsk_Level |-> w[5]]

\* Sampled vocabulary: Chinese, Pinyin, Pinyin_With_Tone, Japanese_Meaning and
\* Hsk_Level.  The second word has a comma, a quote, an empty field and a
\* meaning of two lines separated by a carriage return.
Word1 == << <<"c">>, <<"p">>, <<"t">>, <<"m">>, 1 >>
Word2 == << <<"c", ",">>, <<"\"">>, <<>>, <<"m", CR, "n">>, 2 >>
Vocab == {Word1, Word2}

\* Contents of hsk_words: Id is the primary key, so no two rows share one.
Tables ==
    UNION {{{MkRecord(i, f[i]) : i \in S} : f \in [S -> Vocab]} : S \in SUBSET (1..MaxId)}

MaxOf(S) == CHOOSE m \in S : \A x \in S : x <= m

\* The counter MySQL keeps for an AUTO_INCREMENT column: above every Id.
NextAutoInc(t) == IF t = {} THEN 1 ELSE MaxOf({r.Id : r \in t}) + 1

\* ----------------------------------------------------------- the exporter

\* ORDER BY Id, as fetchall() returns it.
RECURSIVE SortById(_)
SortById(t) ==
    IF t = {} THEN <<>>
    ELSE LET r == CHOOSE x \in t : \A y \in t : x.Id <= y.Id
         IN  <<r>> \o SortById(t \ {r})

\* The exporter without its check for an empty result.
NoRowsUnchecked(rows) == FALSE

\* `if not rows`
NoRows(rows) == rows = <<>>

\* csv_writer.writerows(rows): every value through str().
FormatRow(r) ==
    <<PyStr(r.Id), r.Chinese, r.Pinyin, r.Pinyin_With_Tone, r.Japanese_Meaning,
      PyStr(r.Hsk_Level)>>

\* The file the exporter writes: the header row, then one row per record.
WriteCsv(rows) ==
    [header |-> Headers, rows |-> [k \in 1..Len(rows) |-> FormatRow(rows[k])]]

\* ----------------------------------------------------------- the importer

\* A prompt that accepts whatever starts with 'y': confirm.lower().startswith('y').
ConfirmedByPrefix(c) == c # <<>> /\ LowerChar(c[1]) = "y"

\* `confirm.lower() == 'y'`
Confirmed(c) == Lower(c) = <<"y">>

\* dict(zip(fieldnames, cells)) for one data row, as csv.DictReader builds it:
\* of two columns of one name the later wins.
RowDict(header, cells) ==
    [h \in {header[k] : k \in 1..Len(header)} |->
        LET k == CHOOSE j \in 1..Len(header) :
                    header[j] = h /\ \A j2 \in 1..Len(header) : header[j2] = h => j2 <= j
        IN  cells[k]]

\* The rows of the file as open(csv_file, 'r', encoding='utf-8-sig') hands
\* them to csv.DictReader: newline is left at its default, so every cell has
\* been through the universal-newlines translation.
DictReader(file) ==
    [k \in 1..Len(file.rows) |->
        RowDict(file.header,
                [j \in 1..Len(file.rows[k]) |-> UniversalNewlines(file.rows[k][j])])]

\* The parameter tuple of one INSERT: a missing column raises KeyError and a
\* cell int() rejects raises ValueError (ok = FALSE for both).
InsertValues(row) ==
    IF \E h \in {Headers[k] : k \in 1..Len(Headers)} : h \notin DOMAIN row
    THEN [ok |-> FALSE]
    ELSE LET id == PyInt(row["Id"])
             lv == PyInt(row["Hsk_Level"])
         IN  IF id.ok /\ lv.ok
             THEN [ok |-> TRUE,
                   rec |-> [Id |-> id.val, Chinese |-> row["Chinese"],
                            Pinyin |-> row["Pinyin"],
                            Pinyin_With_Tone |-> row["Pinyin_With_Tone"],
                            Japanese_Meaning |-> row["Japanese_Meaning"],
                            Hsk_Level |-> lv.val]]
             ELSE [ok |-> FALSE]

\* A DELETE that stops after one row: "DELETE FROM hsk_words LIMIT 1".
DeleteOne(t) == IF t = {} THEN {} ELSE t \ {CHOOSE x \in t : \A y \in t : x.Id <= y.Id}

\* "DELETE FROM hsk_words"
DeleteAll(t) == {}

\* INSERT with an Id the table already holds: IntegrityError.
DuplicateKey(t, rec) == \E r \in t : r.Id = rec.Id

\* A load_db_config whose handlers print and return instead of raising.
LoadDbConfigSwallowed(cfg) == "None"

\* load_db_config: the exception it raises, "None" when it returns.
LoadDbConfig(cfg) ==
    CASE cfg = "ok" -> "None"
      [] cfg = "missing" -> "FileNotFoundError"
      [] OTHER -> "Exception"

\* The same function as createcsv.py defines it.
ExportLoadDbConfig(cfg) ==
    CASE cfg = "ok" -> "None"
      [] cfg = "missing" -> "FileNotFoundError"
      [] OTHER -> "Exception"

\* An importer whose finally leaves the connection as it is.
CloseSkipped(c) == c

\* `if connection: connection.close()`
CloseIfOpen(c) == IF c = "open" THEN "closed" ELSE c

NoOut == [msg |-> "None", n |-> 0]

\* What is kept of a run when the next one starts.
Summary ==
    IF script = "none" THEN NoRun
    ELSE [script |-> script, called |-> script = "export" \/ Confirmed(confirm),
          table0 |-> start.table, csv0 |-> start.csv, msg |-> out.msg]

\* ----------------------------------------------------------------- inputs

\* What the operator may type at "Proceed? (y/n): ".
Confirms == {<<"y">>, <<"Y">>, <<"n">>, <<"y", "e", "s">>}

\* Data rows a CSV file may hold: every sampled record as the exporter
\* formats it, an Id int() accepts though str() never writes it (" 1"), an Id
\* that is no number, and an empty Hsk_Level.
CsvRowSamples ==
    {FormatRow(MkRecord(i, w)) : i \in 1..MaxId, w \in Vocab}
    \cup {<< <<" ", "1">>, <<"c">>, <<"p">>, <<"t">>, <<"m">>, <<"1">> >>,
          << <<"x">>, <<"c">>, <<"p">>, <<"t">>, <<"m">>, <<"1">> >>,
          << <<"1">>, <<"c">>, <<"p">>, <<"t">>, <<"m">>, <<>> >>}

\* A header row whose last column has another name than the importer reads.
OtherHeaders == <<"Id", "Chinese", "Pinyin", "Pinyin_With_Tone", "Japanese_Meaning", "Level">>

RowSeqs == UNION {[1..n -> CsvRowSamples] : n \in 0..MaxRows}

\* The CSV file before the session: none, the exporter's header over any
\* sampled rows, or the other header over one well-formed row.
CsvFiles ==
    {NoFile} \cup {[header |-> Headers, rows |-> rs] : rs \in RowSeqs}
    \cup {[header |-> OtherHeaders, rows |-> <<FormatRow(MkRecord(1, Word1))>>]}

Init ==
    /\ table \in Tables
    /\ work = table
    /\ autoInc = NextAutoInc(table)
    /\ csvFile \in CsvFiles
    /\ config \in {"ok", "missing", "malformed"}
    /\ dbUp \in (IF config = "ok" THEN BOOLEAN ELSE {TRUE})
    /\ pc = "idle"
    /\ script = "none"
    /\ confirm = <<>>
    /\ conn = "none"
    /\ exc = "None"
    /\ reader = <<>>
    /\ inserted = 0
    /\ fetched = <<>>
    /\ out = NoOut
    /\ log = <<>>
    /\ start = [table |-> table, csv |-> csvFile]
    /\ prev = NoRun

\* What the entry of either main() sets up: a fresh process.
Begin(s, c) ==
    /\ script' = s
    /\ confirm' = c
    /\ conn' = "none"
    /\ exc' = "None"
    /\ reader' = <<>>
    /\ inserted' = 0
    /\ fetched' = <<>>
    /\ log' = <<>>
    /\ start' = [table |-> table, csv |-> csvFile]
    /\ prev' = Summary

\* -------------------------------------------------- import_csv.py actions

\* main(): the prompt, then import_csv_to_db or "Cancelled."
ImportMain ==
    /\ pc = "idle"
    /\ \E c \in Confirms :
        /\ Begin("import", c)
        /\ IF Confirmed(c)
           THEN /\ pc' = "i_config"
                /\ out' = NoOut
           ELSE /\ pc' = "idle"
                /\ out' = [msg |-> "Cancelled", n |-> 0]
    /\ UNCHANGED <<table, work, autoInc, csvFile, config, dbUp>>

\* db_config = load_db_config()
ImportLoadConfig ==
    /\ pc = "i_config"
    /\ exc' = LoadDbConfig(config)
    /\ pc' = IF exc' = "None" THEN "i_connect" ELSE "i_except"
    /\ UNCHANGED <<table, work, autoInc, csvFile, config, dbUp, script, confirm, conn,
                   reader, inserted, fetched, out, log, start, prev>>

\* connection = pymysql.connect(**db_config)
ImportConnect ==
    /\ pc = "i_connect"
    /\ log' = Append(log, "connect")
    /\ IF dbUp
       THEN /\ conn' = "open"
            /\ exc' = exc
            /\ pc' = "i_delete"
       ELSE /\ conn' = conn
            /\ exc' = "pymysql.Error"
            /\ pc' = "i_except"
    /\ work' = table
    /\ UNCHANGED <<table, autoInc, csvFile, config, dbUp, script, confirm,
                   reader, inserted, fetched, out, start, prev>>

\* Step 1: cursor.execute("DELETE FROM hsk_words")
ImportDelete ==
    /\ pc = "i_delete"
    /\ work' = DeleteAll(work)
    /\ log' = Append(log, "DELETE")
    /\ pc' = "i_alter"
    /\ UNCHANGED <<table, autoInc, csvFile, config, dbUp, script, confirm, conn, exc,
                   reader, inserted, fetched, out, start, prev>>

\* What a DDL statement makes durable: MySQL commits the active transaction
\* before it executes ALTER TABLE.
ImplicitCommit(durable, session) == session

\* Step 2: cursor.execute("ALTER TABLE hsk_words AUTO_INCREMENT = 1")
ImportAlter ==
    /\ pc = "i_alter"
    /\ table' = ImplicitCommit(table, work)
    /\ autoInc' = NextAutoInc(work)
    /\ log' = Append(log, "ALTER")
    /\ pc' = "i_open"
    /\ UNCHANGED <<work, csvFile, config, dbUp, script, confirm, conn, exc,
                   reader, inserted, fetched, out, start, prev>>

\* with open(csv_file, 'r', encoding='utf-8-sig') as f: reader = csv.DictReader(f)
ImportOpenCsv ==
    /\ pc = "i_open"
    /\ IF csvFile = NoFile
       THEN /\ exc' = "FileNotFoundError"
            /\ pc' = "i_except"
            /\ reader' = reader
            /\ log' = log
       ELSE /\ exc' = exc
            /\ pc' = "i_loop"
            /\ reader' = DictReader(csvFile)
            /\ log' = Append(log, "open_r")
    /\ UNCHANGED <<table, work, autoInc, csvFile, config, dbUp, script, confirm, conn,
                   inserted, fetched, out, start, prev>>

\* One turn of `for row in reader`: the two int() calls, then the INSERT.
ImportInsertRow ==
    /\ pc = "i_loop"
    /\ reader # <<>>
    /\ LET v == InsertValues(Head(reader))
       IN  IF ~v.ok
           THEN /\ exc' = "Exception"
                /\ pc' = "i_except"
                /\ UNCHANGED <<work, autoInc, reader, inserted, log>>
           ELSE /\ log' = Append(log, "INSERT")
                /\ IF DuplicateKey(work, v.rec)
                   THEN /\ exc' = "pymysql.Error"
                        /\ pc' = "i_except"
                        /\ UNCHANGED <<work, autoInc, reader, inserted>>
                   ELSE /\ work' = work \cup {v.rec}
                        /\ autoInc' = IF v.rec.Id >= autoInc THEN v.rec.Id + 1 ELSE autoInc
                        /\ reader' = Tail(reader)
                        /\ inserted' = inserted + 1
                        /\ UNCHANGED <<exc, pc>>
    /\ UNCHANGED <<table, csvFile, config, dbUp, script, confirm, conn,
                   fetched, out, start, prev>>

\* connection.commit() and "Completed!", once the loop has run out of rows.
ImportCommit ==
    /\ pc = "i_loop"
    /\ reader = <<>>
    /\ table' = work
    /\ log' = Append(log, "COMMIT")
    /\ out' = [msg |-> "Completed", n |-> inserted]
    /\ pc' = "i_verify"
    /\ UNCHANGED <<work, autoInc, csvFile, config, dbUp, script, confirm, conn, exc,
                   reader, inserted, fetched, start, prev>>

\* Step 4: SELECT COUNT(*) and the count per Hsk_Level, printed.
ImportVerify ==
    /\ pc = "i_verify"
    /\ log' = Append(log, "SELECT")
    /\ out' = [msg |-> "Completed", n |-> inserted, total |-> Cardinality(work),
               levels |-> [l \in {r.Hsk_Level : r \in work} |->
                              Cardinality({r \in work : r.Hsk_Level = l})]]
    /\ pc' = "i_finally"
    /\ UNCHANGED <<table, work, autoInc, csvFile, config, dbUp, script, confirm, conn, exc,
                   reader, inserted, fetched, start, prev>>

\* except FileNotFoundError: the message alone.
ImportExceptFileNotFound ==
    /\ pc = "i_except"
    /\ exc = "FileNotFoundError"
    /\ out' = [msg |-> "CsvNotFound", n |-> 0]
    /\ pc' = "i_finally"
    /\ UNCHANGED <<table, work, autoInc, csvFile, config, dbUp, script, confirm, conn, exc,
                   reader, inserted, fetched, log, start, prev>>

\* `if connection: connection.rollback()` of either handler.
Rollback(durable, session) == durable

\* except pymysql.Error: the message and the rollback.
ImportExceptDb ==
    /\ pc = "i_except"
    /\ exc = "pymysql.Error"
    /\ out' = [msg |-> "DbError", n |-> 0]
    /\ IF conn = "open"
       THEN work' = Rollback(table, work) /\ log' = Append(log, "ROLLBACK")
       ELSE UNCHANGED <<work, log>>
    /\ pc' = "i_finally"
    /\ UNCHANGED <<table, autoInc, csvFile, config, dbUp, script, confirm, conn, exc,
                   reader, inserted, fetched, start, prev>>

\* except Exception: the message and the rollback.
ImportExceptAny ==
    /\ pc = "i_except"
    /\ exc = "Exception"
    /\ out' = [msg |-> "Error", n |-> 0]
    /\ IF conn = "open"
       THEN work' = Rollback(table, work) /\ log' = Append(log, "ROLLBACK")
       ELSE UNCHANGED <<work, log>>
    /\ pc' = "i_finally"
    /\ UNCHANGED <<table, autoInc, csvFile, config, dbUp, script, confirm, conn, exc,
                   reader, inserted, fetched, start, prev>>

\* finally: close the connection if there is one; the server drops whatever
\* the session had not committed.
ImportFinally ==
    /\ pc = "i_finally"
    /\ conn' = CloseIfOpen(conn)
    /\ log' = IF conn = "open" THEN Append(log, "close") ELSE log
    /\ work' = table
    /\ pc' = "idle"
    /\ UNCHANGED <<table, autoInc, csvFile, config, dbUp, script, confirm, exc,
                   reader, inserted, fetched, out, start, prev>>

\* --------------------------------------------------- createcsv.py actions

\* main(): export_hsk_words_to_csv(output_file).  The file it names by the
\* time of the run is the file the importer's main() names.
ExportMain ==
    /\ pc = "idle"
    /\ Begin("export", <<>>)
    /\ pc' = "e_config"
    /\ out' = NoOut
    /\ UNCHANGED <<table, work, autoInc, csvFile, config, dbUp>>

\* db_config = load_db_config()
ExportLoadConfig ==
    /\ pc = "e_config"
    /\ exc' = ExportLoadDbConfig(config)
    /\ pc' = IF exc' = "None" THEN "e_connect" ELSE "e_except"
    /\ UNCHANGED <<table, work, autoInc, csvFile, config, dbUp, script, confirm, conn,
                   reader, inserted, fetched, out, log, start, prev>>

\* connection = pymysql.connect(**db_config)
ExportConnect ==
    /\ pc = "e_connect"
    /\ log' = Append(log, "connect")
    /\ IF dbUp
       THEN /\ conn' = "open"
            /\ exc' = exc
            /\ pc' = "e_query"
       ELSE /\ conn' = conn
            /\ exc' = "pymysql.Error"
            /\ pc' = "e_except"
    /\ work' = table
    /\ UNCHANGED <<table, autoInc, csvFile, config, dbUp, script, confirm,
                   reader, inserted, fetched, out, start, prev>>

\* cursor.execute(query); rows = cursor.fetchall(); `if not rows: return`
ExportQuery ==
    /\ pc = "e_query"
    /\ fetched' = SortById(work)
    /\ log' = Append(log, "SELECT")
    /\ IF NoRows(fetched')
       THEN /\ out' = [msg |-> "NoData", n |-> 0]
            /\ pc' = "e_finally"
       ELSE /\ out' = out
            /\ pc' = "e_write"
    /\ UNCHANGED <<table, work, autoInc, csvFile, config, dbUp, script, confirm, conn, exc,
                   reader, inserted, start, prev>>

\* with open(output_file, 'w', newline='', encoding='utf-8-sig'): header, rows
ExportWrite ==
    /\ pc = "e_write"
    /\ csvFile' = WriteCsv(fetched)
    /\ log' = Append(log, "open_w")
    /\ out' = [msg |-> "Exported", n |-> Len(fetched)]
    /\ pc' = "e_finally"
    /\ UNCHANGED <<table, work, autoInc, config, dbUp, script, confirm, conn, exc,
                   reader, inserted, fetched, start, prev>>

\* except pymysql.Error: the message alone.
ExportExceptDb ==
    /\ pc = "e_except"
    /\ exc = "pymysql.Error"
    /\ out' = [msg |-> "DbError", n |-> 0]
    /\ pc' = "e_finally"
    /\ UNCHANGED <<table, work, autoInc, csvFile, config, dbUp, script, confirm, conn, exc,
                   reader, inserted, fetched, log, start, prev>>

\* except Exception: the message alone (a missing config file ends here).
ExportExceptAny ==
    /\ pc = "e_except"
    /\ exc \in {"Exception", "FileNotFoundError"}
    /\ out' = [msg |-> "Error", n |-> 0]
    /\ pc' = "e_finally"
    /\ UNCHANGED <<table, work, autoInc, csvFile, config, dbUp, script, confirm, conn, exc,
                   reader, inserted, fetched, log, start, prev>>

\* `if connection: connection.close()` of the exporter's finally.
ExportCloseIfOpen(c) == IF c = "open" THEN "closed" ELSE c

\* finally: close the connection if there is one.
ExportFinally ==
    /\ pc = "e_finally"
    /\ conn' = ExportCloseIfOpen(conn)
    /\ log' = IF conn = "open" THEN Append(log, "close") ELSE log
    /\ work' = table
    /\ pc' = "idle"
    /\ UNCHANGED <<table, autoInc, csvFile, config, dbUp, script, confirm, exc,
                   reader, inserted, fetched, out, start, prev>>

\* ------------------------------------------------------------------ system

Next ==
    \/ ImportMain
    \/ ImportLoadConfig
    \/ ImportConnect
    \/ ImportDelete
    \/ ImportAlter
    \/ ImportOpenCsv
    \/ ImportInsertRow
    \/ ImportCommit
    \/ ImportVerify
    \/ ImportExceptFileNotFound
    \/ ImportExceptDb
    \/ ImportExceptAny
    \/ ImportFinally
    \/ ExportMain
    \/ ExportLoadConfig
    \/ ExportConnect
    \/ ExportQuery
    \/ ExportWrite
    \/ ExportExceptDb
    \/ ExportExceptAny
    \/ ExportFinally

Spec == Init /\ [][Next]_vars

\* ------------------------------------------------------------------ claims

InLog(op) == \E k \in 1..Len(log) : log[k] = op
CountLog(op) == Cardinality({k \in 1..Len(log) : log[k] = op})

\* A run has returned to the shell.
Finished == pc = "idle" /\ script # "none"

\* main() of the importer went on to call import_csv_to_db.
ImportCalled == script = "import" /\ (pc # "idle" \/ out.msg # "Cancelled")

\* import_csv_to_db was called, connected and has returned.
ImportRan == Finished /\ ImportCalled /\ InLog("connect") /\ dbUp

\* The record a CSV data row denotes: its cells as the file holds them, Id and
\* Hsk_Level as numbers.
CsvRecord(file, k) == InsertValues(RowDict(file.header, file.rows[k]))

\* A data row whose Id or Hsk_Level is no integer.
HasMalformedRow(file) ==
    /\ file # NoFile
    /\ file.header = Headers
    /\ \E k \in 1..Len(file.rows) :
          ~PyInt(file.rows[k][1]).ok \/ ~PyInt(file.rows[k][6]).ok

\* C1: an import of a CSV with a malformed Id or Hsk_Level fails and leaves
\* hsk_words as it was before the run.
C1_AllOrNothing ==
    (ImportRan /\ HasMalformedRow(start.csv))
        => (out.msg \in {"Error", "DbError"} /\ table = start.table)

\* C2: when the CSV file does not exist the import reports it, has executed
\* no DELETE, ALTER TABLE or INSERT, and leaves hsk_words as it was.
C2_MissingCsvUntouched ==
    (ImportRan /\ start.csv = NoFile)
        => /\ out.msg = "CsvNotFound"
           /\ ~InLog("DELETE") /\ ~InLog("ALTER") /\ ~InLog("INSERT")
           /\ table = start.table

\* C3: after a committed import hsk_words holds exactly the rows of the CSV:
\* one record per data row, its six fields those of the row, its Id the row's.
C3_TableIsCsv ==
    (Finished /\ script = "import" /\ out.msg = "Completed")
        => /\ \A k \in 1..Len(start.csv.rows) : CsvRecord(start.csv, k).ok
           /\ table = {CsvRecord(start.csv, k).rec : k \in 1..Len(start.csv.rows)}
           /\ Cardinality(table) = Len(start.csv.rows)

\* C4: a second import of the same CSV leaves hsk_words as the first left it,
\* whether the runs succeed or fail.
C4_Idempotent ==
    (Finished /\ ImportCalled /\ prev.script = "import" /\ prev.called
       /\ prev.csv0 = start.csv)
        => table = start.table

\* C4's case: two committed imports in a row, the first of which changed the
\* table.
C4_Witness ==
    /\ Finished /\ ImportCalled /\ prev.script = "import" /\ prev.called
    /\ out.msg = "Completed" /\ prev.msg = "Completed"
    /\ prev.table0 # table /\ table # {}

\* C5: export, then import of the file the export wrote (no file when the
\* table was empty) gives back the table the export read.
C5_RoundTrip ==
    (ImportRan /\ prev.script = "export"
       /\ (prev.msg = "Exported" \/ (prev.msg = "NoData" /\ prev.csv0 = NoFile)))
        => table = prev.table0

\* C6: an export that fetched no row reports no data and opens no output
\* file; a file is written only for one row or more, and then holds the header
\* and one row per fetched record.
C6_NoEmptyFile ==
    script = "export" =>
        /\ (InLog("SELECT") /\ fetched = <<>>)
              => (/\ out = [msg |-> "NoData", n |-> 0]
                  /\ ~InLog("open_w")
                  /\ csvFile = start.csv
                  /\ pc \in {"e_finally", "idle"})
        /\ InLog("open_w")
              => (/\ Len(fetched) >= 1
                  /\ Len(fetched) = Cardinality(start.table)
                  /\ csvFile.header = Headers
                  /\ Len(csvFile.rows) = Len(fetched)
                  /\ \A k \in 1..Len(fetched) :
                        /\ Len(csvFile.rows[k]) = 6
                        /\ PyInt(csvFile.rows[k][1]) = [ok |-> TRUE, val |-> fetched[k].Id]
                  /\ out = [msg |-> "Exported", n |-> Len(fetched)])

\* C6's case: an export of the empty table has returned, and there is no file.
C6_Witness ==
    /\ Finished /\ script = "export" /\ InLog("SELECT")
    /\ start.table = {} /\ start.csv = NoFile /\ csvFile = NoFile
    /\ out.msg = "NoData"

\* C7: no run of either script returns with its connection open; one that
\* opened a connection closed it last of all.
C7_ConnectionClosed ==
    pc = "idle" =>
        /\ conn # "open"
        /\ (InLog("connect") /\ dbUp) => (conn = "closed" /\ log[Len(log)] = "close")

\* C7's case: an import that failed on a malformed row, after an export that
\* found no data, both with the connection closed.
C7_Witness ==
    /\ Finished /\ script = "import" /\ out.msg = "Error" /\ InLog("ROLLBACK")
    /\ conn = "closed"
    /\ prev.script = "export" /\ prev.msg = "NoData"

\* C8: any answer but 'y' or 'Y' ends the importer with "Cancelled" and no
\* operation on the database or the file; import_csv_to_db runs only on 'y'/'Y'.
C8_ConfirmGate ==
    script = "import" =>
        /\ confirm \notin {<<"y">>, <<"Y">>}
              => (/\ pc = "idle"
                  /\ out.msg = "Cancelled"
                  /\ log = <<>>
                  /\ conn = "none"
                  /\ table = start.table
                  /\ csvFile = start.csv)
        /\ ImportCalled => confirm \in {<<"y">>, <<"Y">>}

\* C8's case: the operator answered "yes" over a table that holds rows.
C8_Witness ==
    /\ script = "import" /\ confirm = <<"y", "e", "s">> /\ out.msg = "Cancelled"
    /\ table # {} /\ csvFile # NoFile

\* C9: with the config file missing no script attempts a connection or
\* touches the table or the file; the run goes from load_db_config to its
\* handler and out.
C9_NoConfigNoConnect ==
    config = "missing" =>
        /\ log = <<>>
        /\ conn = "none"
        /\ table = start.table
        /\ csvFile = start.csv
        /\ pc \in {"idle", "i_config", "i_except", "i_finally",
                   "e_config", "e_except", "e_finally"}
        /\ (Finished /\ ImportCalled) => out.msg = "CsvNotFound"
        /\ (Finished /\ script = "export") => out.msg = "Error"

\* C9's case: both scripts have run without a config file, over a table that
\* holds rows.
C9_Witness ==
    /\ config = "missing" /\ Finished /\ ImportCalled
    /\ prev.script = "export" /\ prev.msg = "Error"
    /\ table # {} /\ csvFile # NoFile

\* C10: nothing an import changes is durable before its one commit, the commit
\* comes after the last CSV row, and a failed run has committed nothing.
C10_CommitOnce ==
    script = "import" =>
        /\ ~InLog("COMMIT") => table = start.table
        /\ CountLog("COMMIT") <= 1
        /\ InLog("COMMIT") => (reader = <<>> /\ inserted = Len(start.csv.rows))
        /\ (Finished /\ out.msg # "Completed") => table = start.table

====
